---- MODULE Spec2Model ----
(***************************************************************************)
(* Model of t0/model.py: ModelBase.from_config, EncoderDecoderModel.forward, *)
(* _expand_mask and DecoderModel.forward.                                    *)
(*                                                                           *)
(* Tensors are functions over 0-based index ranges, one level per axis.      *)
(* Integer tensors (ids, masks, position ids, predictions) hold integers.    *)
(* float32 tensors hold tagged values <<"fin", n>>, <<"ninf", 0>> and        *)
(* <<"nan", 0>>: a finite number, minus infinity and not-a-number, with the  *)
(* IEEE rules for the products, sums and comparisons the code performs.      *)
(* Finite values are kept at a resolution of one unit, with logits and       *)
(* log-probabilities measured in bits (multiples of ln 2).                   *)
(***************************************************************************)
EXTENDS Integers, Sequences, FiniteSets, TLC

VARIABLES
    pc,                  \* position in from_config / forward / _expand_mask
    config,              \* config.__class__ of the configuration
    scorer,              \* class of the ModelBase built by from_config
    raised,              \* exception that ended the call, "none" when none
    model,               \* self._model: [vocab, values] of the logits it returns
    model_calls,         \* number of times self._model(...) was invoked
    batch,               \* the batch handed to forward
    prefixlm,            \* DecoderModel.forward's prefixlm argument
    model_inputs,        \* DecoderModel.forward's model_inputs dict
    raw_logits,          \* self._model(...).logits, before any slicing
    logits,              \* logits as handed to the scoring lines
    seq_token_log_probs, \* after gather and squeeze, [rows, lab_len]
    seq_log_prob,        \* after sum, [rows]; after view, [num_examples, C]
    predictions,         \* the returned tensor
    em_args,             \* a direct call of _expand_mask: its arguments
    em_result            \* and its return value

vars == <<pc, config, scorer, raised, model, model_calls, batch, prefixlm,
          model_inputs, raw_logits, logits, seq_token_log_probs, seq_log_prob,
          predictions, em_args, em_result>>

-----------------------------------------------------------------------------
(* float32 values *)

Fin(n) == <<"fin", n>>
NegInf == <<"ninf", 0>>
NaN == <<"nan", 0>>

IsFin(x) == x[1] = "fin"
IsNaN(x) == x[1] = "nan"

\* a + b, operands finite, -inf or nan
FAdd(a, b) ==
    IF IsNaN(a) \/ IsNaN(b) THEN NaN
    ELSE IF a = NegInf \/ b = NegInf THEN NegInf
    ELSE Fin(a[2] + b[2])

\* m * x for a non-negative integer m: 0 * -inf is nan
FMul(m, x) ==
    IF IsNaN(x) THEN NaN
    ELSE IF x = NegInf THEN (IF m = 0 THEN NaN ELSE NegInf)
    ELSE Fin(m * x[2])

\* a > b, false when either is nan
FGreater(a, b) ==
    IF IsNaN(a) \/ IsNaN(b) THEN FALSE
    ELSE IF a = NegInf THEN FALSE
    ELSE IF b = NegInf THEN TRUE
    ELSE a[2] > b[2]

-----------------------------------------------------------------------------
(* tensor helpers *)

Range(n) == 0 .. (n - 1)
Size(t) == Cardinality(DOMAIN t)

\* torch.cat([a, b], dim=-1) of two [rows, *] tensors
CatLast(a, b) ==
    [r \in DOMAIN a |->
        [s \in Range(Size(a[r]) + Size(b[r])) |->
            IF s < Size(a[r]) THEN a[r][s] ELSE b[r][s - Size(a[r])]]]

RECURSIVE SumTo(_, _)
\* sum of the integer vector v over indices 0..k
SumTo(v, k) == IF k < 0 THEN 0 ELSE SumTo(v, k - 1) + v[k]

\* torch.cumsum(m, dim=-1) of a [rows, len] integer tensor
CumSum(m) == [r \in DOMAIN m |-> [s \in DOMAIN m[r] |-> SumTo(m[r], s)]]

Max(a, b) == IF a >= b THEN a ELSE b

\* indices selected by the Python slice [start:stop] on an axis of length n
PySlice(n, start, stop) ==
    LET norm(i) == IF i < 0 THEN Max(i + n, 0) ELSE IF i > n THEN n ELSE i
    IN  {i \in Range(n) : norm(start) <= i /\ i < norm(stop)}

-----------------------------------------------------------------------------
(* ModelBase.from_config *)

\* transformers' MODEL_FOR_CAUSAL_LM_MAPPING, config class -> model class,
\* restricted to the config classes drawn below
MODEL_FOR_CAUSAL_LM_MAPPING ==
    [c \in {"BloomConfig", "BartConfig"} |->
        IF c = "BloomConfig" THEN "BloomForCausalLM" ELSE "BartForCausalLM"]

\* transformers' MODEL_FOR_SEQ_TO_SEQ_CAUSAL_LM_MAPPING, likewise
MODEL_FOR_SEQ_TO_SEQ_CAUSAL_LM_MAPPING ==
    [c \in {"T5Config", "BartConfig"} |->
        IF c = "T5Config" THEN "T5ForConditionalGeneration"
        ELSE "BartForConditionalGeneration"]

\* the config classes a caller may pass: causal only, seq2seq only, both, neither
ConfigClasses == {"BloomConfig", "T5Config", "BartConfig", "ViTConfig"}

\* mapping.get(key, None)
MappingGet(mapping, key) == IF key \in DOMAIN mapping THEN mapping[key] ELSE "None"

\* the two entries in the other order
task_mapping_seq2seq_first ==
    << <<MODEL_FOR_SEQ_TO_SEQ_CAUSAL_LM_MAPPING, "EncoderDecoderModel">>,
       <<MODEL_FOR_CAUSAL_LM_MAPPING, "DecoderModel">> >>

task_mapping ==
    << <<MODEL_FOR_CAUSAL_LM_MAPPING, "DecoderModel">>,
       <<MODEL_FOR_SEQ_TO_SEQ_CAUSAL_LM_MAPPING, "EncoderDecoderModel">> >>

RECURSIVE SelectModel(_, _)
\* the for loop of from_config from entry i on: the class it builds, or the
\* exception it raises when the loop runs out
SelectModel(config_name, i) ==
    IF i > Len(task_mapping) THEN "NotImplementedError"
    ELSE LET transformer_model_name == MappingGet(task_mapping[i][1], config_name)
         IN  IF transformer_model_name # "None" THEN task_mapping[i][2]
             ELSE SelectModel(config_name, i + 1)

-----------------------------------------------------------------------------
(* _expand_mask *)

\* the mask filled without being inverted first
ExpandMaskNotInverted(mask, tgt_len) ==
    LET source_length == IF DOMAIN mask = {} THEN 0 ELSE Size(mask[0])
        tgt == IF tgt_len # {} THEN CHOOSE n \in tgt_len : TRUE ELSE source_length
    IN  [r \in DOMAIN mask |-> [h \in Range(1) |->
            [q \in Range(tgt) |-> [s \in Range(source_length) |->
                IF mask[r][s] # 0 THEN NegInf ELSE Fin(mask[r][s])]]]]

\* mask is [bsz, src_len]; tgt_len is {} for None and {n} for the integer n
ExpandMask(mask, tgt_len) ==
    LET source_length == IF DOMAIN mask = {} THEN 0 ELSE Size(mask[0])
        tgt == IF tgt_len # {} THEN CHOOSE n \in tgt_len : TRUE ELSE source_length
        expanded_mask == [r \in DOMAIN mask |-> [h \in Range(1) |->
                            [q \in Range(tgt) |-> [s \in Range(source_length) |->
                                mask[r][s]]]]]
        inverted_mask == [r \in DOMAIN mask |-> [h \in Range(1) |->
                            [q \in Range(tgt) |-> [s \in Range(source_length) |->
                                1 - expanded_mask[r][h][q][s]]]]]
    IN  [r \in DOMAIN mask |-> [h \in Range(1) |->
            [q \in Range(tgt) |-> [s \in Range(source_length) |->
                IF inverted_mask[r][h][q][s] # 0 THEN NegInf
                ELSE Fin(inverted_mask[r][h][q][s])]]]]

-----------------------------------------------------------------------------
(* DecoderModel.forward: inputs *)

\* cumsum - 1 without the floor at 0
PositionIdsNoFloor(attention_mask) ==
    LET c == CumSum(attention_mask)
    IN  [z \in Range(1) |-> [r \in DOMAIN c |-> [s \in DOMAIN c[r] |->
            c[r][s] - 1]]]

\* torch.maximum(cumsum(attention_mask) - 1, zeros(1)[None, None]): the
\* [1, 1, 1] zero tensor broadcasts the result to [1, rows, len]
PositionIds(attention_mask) ==
    LET c == CumSum(attention_mask)
    IN  [z \in Range(1) |-> [r \in DOMAIN c |-> [s \in DOMAIN c[r] |->
            Max(c[r][s] - 1, 0)]]]

\* zeros instead of ones concatenated above the causal block
LabelsCausalMaskZerosAbove(bs, prefix_len, lab_len) ==
    [r \in Range(bs) |-> [h \in Range(1) |->
        [q \in Range(prefix_len + lab_len) |-> [j \in Range(lab_len) |->
            IF q < prefix_len THEN 0
            ELSE IF j <= q - prefix_len THEN 0 ELSE 1]]]]

\* 1 - tril(ones(bs, 1, lab_len, lab_len)), with ones(bs, 1, prefix_len, lab_len)
\* concatenated above it on the query axis
LabelsCausalMask(bs, prefix_len, lab_len) ==
    LET tril == [r \in Range(bs) |-> [h \in Range(1) |->
                    [i \in Range(lab_len) |-> [j \in Range(lab_len) |->
                        IF j <= i THEN 1 ELSE 0]]]]
    IN  [r \in Range(bs) |-> [h \in Range(1) |->
            [q \in Range(prefix_len + lab_len) |-> [j \in Range(lab_len) |->
                IF q < prefix_len THEN 1
                ELSE 1 - tril[r][h][q - prefix_len][j]]]]]

\* the causal bias assigned over the padding bias instead of added to it
AddCausalMaskOverwrite(mask, labels_causal_mask, prefix_len) ==
    [r \in DOMAIN mask |-> [h \in Range(1) |->
        [q \in DOMAIN mask[r][h] |-> [s \in DOMAIN mask[r][h][q] |->
            IF s >= prefix_len
            THEN (IF labels_causal_mask[r][h][q][s - prefix_len] # 0 THEN NegInf
                  ELSE Fin(0))
            ELSE mask[r][h][q][s]]]]]

\* the causal bias added to the first lab_len columns instead of the last
AddCausalMaskFirstColumns(mask, labels_causal_mask, prefix_len) ==
    [r \in DOMAIN mask |-> [h \in Range(1) |->
        [q \in DOMAIN mask[r][h] |-> [s \in DOMAIN mask[r][h][q] |->
            IF s < Size(labels_causal_mask[r][h][q])
            THEN FAdd(mask[r][h][q][s],
                      IF labels_causal_mask[r][h][q][s] # 0 THEN NegInf
                      ELSE Fin(0))
            ELSE mask[r][h][q][s]]]]]

\* mask[:, :, :, prefix_len:] += labels_causal_mask.masked_fill(
\*     labels_causal_mask.to(torch.bool), -torch.inf)
AddCausalMask(mask, labels_causal_mask, prefix_len) ==
    LET fill == [r \in DOMAIN labels_causal_mask |-> [h \in Range(1) |->
                    [q \in DOMAIN labels_causal_mask[r][h] |->
                        [j \in DOMAIN labels_causal_mask[r][h][q] |->
                            IF labels_causal_mask[r][h][q][j] # 0 THEN NegInf
                            ELSE Fin(labels_causal_mask[r][h][q][j])]]]]
    IN  [r \in DOMAIN mask |-> [h \in Range(1) |->
            [q \in DOMAIN mask[r][h] |-> [s \in DOMAIN mask[r][h][q] |->
                IF s \in PySlice(Size(mask[r][h][q]), prefix_len,
                                 Size(mask[r][h][q]))
                THEN FAdd(mask[r][h][q][s], fill[r][h][q][s - prefix_len])
                ELSE mask[r][h][q][s]]]]]

\* the slice [prefix_len:], one position late
SliceLogitsFromPrefix(raw, prefix_len) ==
    [r \in DOMAIN raw |->
        LET keep == PySlice(Size(raw[r]), prefix_len, Size(raw[r]))
        IN  [t \in Range(Cardinality(keep)) |->
                raw[r][(CHOOSE i \in keep : \A j \in keep : i <= j) + t]]]

\* .logits[:, prefix_len-1:-1]
SliceLogits(raw, prefix_len) ==
    [r \in DOMAIN raw |->
        LET keep == PySlice(Size(raw[r]), prefix_len - 1, -1)
        IN  [t \in Range(Cardinality(keep)) |->
                raw[r][(CHOOSE i \in keep : \A j \in keep : i <= j) + t]]]

-----------------------------------------------------------------------------
(* scoring lines shared by both forwards *)

RECURSIVE Pow2(_)
Pow2(k) == IF k <= 0 THEN 1 ELSE 2 * Pow2(k - 1)

\* log2(n) for n >= 1, rounded to the nearest unit
RoundLog2(n) ==
    CHOOSE k \in 0 .. n : Pow2(2 * k) <= 2 * n * n /\ 2 * n * n < Pow2(2 * k + 2)

RECURSIVE SumPow2(_, _, _)
\* sum over the finite entries v >= i of 2^(x[v] - lo)
SumPow2(x, lo, i) ==
    IF i >= Size(x) THEN 0
    ELSE (IF IsFin(x[i]) THEN Pow2(x[i][2] - lo) ELSE 0) + SumPow2(x, lo, i + 1)

\* torch.log_softmax(x, dim=-1) of one vocabulary vector: x - logsumexp(x).
\* An entry of -inf has probability 0 and log-probability -inf; when no entry
\* is finite, or one is nan, every output is nan.
LogSoftmax(x) ==
    LET finite == {v \in DOMAIN x : IsFin(x[v])}
    IN  IF finite = {} \/ \E v \in DOMAIN x : IsNaN(x[v])
        THEN [v \in DOMAIN x |-> NaN]
        ELSE LET lo == CHOOSE m \in {x[v][2] : v \in finite} :
                           \A v \in finite : m <= x[v][2]
                 lse == RoundLog2(SumPow2(x, lo, 0))
             IN  [v \in DOMAIN x |->
                     IF IsFin(x[v]) THEN Fin(x[v][2] - lo - lse) ELSE NegInf]

\* batch["labels_attention_mask"].unsqueeze(-1) * torch.log_softmax(logits, dim=-1)
MaskedLogProbs(labels_attention_mask, lgts) ==
    [r \in DOMAIN lgts |-> [t \in DOMAIN lgts[r] |->
        LET lp == LogSoftmax(lgts[r][t])
        IN  [v \in DOMAIN lp |-> FMul(labels_attention_mask[r][t], lp[v])]]]

\* torch.gather(masked_log_probs, -1, labels.unsqueeze(-1)).squeeze(dim=-1)
Gather(masked_log_probs, labels) ==
    [r \in DOMAIN masked_log_probs |-> [t \in DOMAIN masked_log_probs[r] |->
        masked_log_probs[r][t][labels[r][t]]]]

RECURSIVE FSum(_, _)
\* sum of the float vector v over indices 0..k
FSum(v, k) == IF k < 0 THEN Fin(0) ELSE FAdd(FSum(v, k - 1), v[k])

\* .sum(dim=-1)
SumLast(t) == [r \in DOMAIN t |-> FSum(t[r], Size(t[r]) - 1)]

\* a reshape that accepts any row count
ViewOKAnyRows(rows, n) == n > 0

\* whether flat.view(n, -1) is a valid shape for a tensor of rows elements
ViewOK(rows, n) == n > 0 /\ rows % n = 0

\* flat.view(n, -1)
View(flat, n) ==
    LET c == Size(flat) \div n
    IN  [e \in Range(n) |-> [k \in Range(c) |-> flat[e * c + k]]]

\* torch.argmax over one row: a nan counts as greater than every number,
\* and among equal candidates the lowest index wins
ArgMaxRow(v) ==
    LET beats(a, b) ==
            IF IsNaN(v[a]) THEN (IF IsNaN(v[b]) THEN a < b ELSE TRUE)
            ELSE IF IsNaN(v[b]) THEN FALSE
            ELSE IF v[a] = v[b] THEN a < b
            ELSE FGreater(v[a], v[b])
    IN  CHOOSE a \in DOMAIN v : \A b \in DOMAIN v \ {a} : beats(a, b)

\* .argmax(dim=-1)
ArgMax(t) == [e \in DOMAIN t |-> ArgMaxRow(t[e])]

-----------------------------------------------------------------------------
(* inputs *)

\* [rows, len] integer tensors with entries from vals
Tensors2(rows, len, vals) == [Range(rows) -> [Range(len) -> vals]]

\* the batches of p.rows rows: prompts of p.prefix_len tokens, candidates of
\* p.lab_len tokens, and p.examples entries in batch["targets"]
Batches(p) ==
    {[input_ids |-> ii, attention_mask |-> am, labels |-> lb,
      labels_attention_mask |-> lm, targets |-> [e \in Range(n) |-> 0]] :
        ii \in Tensors2(p.rows, p.prefix_len, {0}),
        am \in Tensors2(p.rows, p.prefix_len, p.prompt_mask),
        lb \in Tensors2(p.rows, p.lab_len, p.label_ids),
        lm \in Tensors2(p.rows, p.lab_len, p.label_mask),
        n \in p.examples}

\* what self._model returns for one position: a vector over the vocabulary
\* with at least one finite logit
LogitVectors ==
    {x \in [Range(model.vocab) -> model.values] : \E v \in DOMAIN x : IsFin(x[v])}

NoTensor == <<>>
NoInputs == [attention_mask |-> NoTensor, position_ids |-> NoTensor,
             causal_mask |-> NoTensor]
NoExpandArgs == [mask |-> NoTensor, tgt_len |-> {}]

\* the state when from_config is called: P is a set of input shapes
InitWith(P) ==
    /\ pc = "from_config"
    /\ \E p \in P :
        /\ config \in p.configs
        /\ model = [vocab |-> p.vocab, values |-> p.values]
        /\ batch \in Batches(p)
        /\ prefixlm \in p.prefixlm
    /\ scorer = "none"
    /\ raised = "none"
    /\ model_calls = 0
    /\ model_inputs = NoInputs
    /\ raw_logits = NoTensor
    /\ logits = NoTensor
    /\ seq_token_log_probs = NoTensor
    /\ seq_log_prob = NoTensor
    /\ predictions = NoTensor
    /\ em_args = NoExpandArgs
    /\ em_result = NoTensor

-----------------------------------------------------------------------------
(* actions *)

fwd_vars == <<model_inputs, raw_logits, logits, seq_token_log_probs,
              seq_log_prob, predictions>>
in_vars == <<config, model, batch, prefixlm, em_args>>

FromConfig ==
    /\ pc = "from_config"
    /\ LET built == SelectModel(config, 1)
       IN  IF built = "NotImplementedError"
           THEN /\ raised' = "NotImplementedError"
                /\ pc' = "raised"
                /\ UNCHANGED scorer
           ELSE /\ scorer' = built
                /\ pc' = "forward"
                /\ UNCHANGED raised
    /\ UNCHANGED <<in_vars, fwd_vars, model_calls, em_result>>

\* line 73
EncModel ==
    /\ pc = "forward" /\ scorer = "EncoderDecoderModel"
    /\ raw_logits' \in [DOMAIN batch.labels ->
                           [Range(Size(batch.labels[0])) -> LogitVectors]]
    /\ logits' = raw_logits'
    /\ model_calls' = model_calls + 1
    /\ pc' = "enc_logits"
    /\ UNCHANGED <<in_vars, scorer, raised, model_inputs, seq_token_log_probs,
                   seq_log_prob, predictions, em_result>>

\* lines 74-76
EncScore ==
    /\ pc = "enc_logits"
    /\ LET masked_log_probs == MaskedLogProbs(batch.labels_attention_mask, logits)
       IN  /\ seq_token_log_probs' = Gather(masked_log_probs, batch.labels)
           /\ seq_log_prob' = SumLast(seq_token_log_probs')
    /\ pc' = "enc_summed"
    /\ UNCHANGED <<in_vars, scorer, raised, model_calls, model_inputs, raw_logits,
                   logits, predictions, em_result>>

\* lines 77-78
EncView ==
    /\ pc = "enc_summed"
    /\ IF ViewOK(Size(seq_log_prob), Size(batch.targets))
       THEN /\ seq_log_prob' = View(seq_log_prob, Size(batch.targets))
            /\ pc' = "enc_viewed"
            /\ UNCHANGED raised
       ELSE /\ raised' = "RuntimeError"
            /\ pc' = "raised"
            /\ UNCHANGED seq_log_prob
    /\ UNCHANGED <<in_vars, scorer, model_calls, model_inputs, raw_logits, logits,
                   seq_token_log_probs, predictions, em_result>>

\* lines 79-80
EncArgmax ==
    /\ pc = "enc_viewed"
    /\ predictions' = ArgMax(seq_log_prob)
    /\ pc' = "done"
    /\ UNCHANGED <<in_vars, scorer, raised, model_calls, model_inputs, raw_logits,
                   logits, seq_token_log_probs, seq_log_prob, em_result>>

\* lines 125-138
DecInputs ==
    /\ pc = "forward" /\ scorer = "DecoderModel"
    /\ LET attention_mask == CatLast(batch.attention_mask,
                                     batch.labels_attention_mask)
       IN  model_inputs' = [attention_mask |-> attention_mask,
                            position_ids |-> PositionIds(attention_mask),
                            causal_mask |-> NoTensor]
    /\ pc' = "dec_inputs"
    /\ UNCHANGED <<in_vars, scorer, raised, model_calls, raw_logits, logits,
                   seq_token_log_probs, seq_log_prob, predictions, em_result>>

\* lines 139-153
DecPrefixMask ==
    /\ pc = "dec_inputs" /\ prefixlm
    /\ LET prefix_len == Size(batch.input_ids[0])
           bs == Size(batch.labels)
           lab_len == Size(batch.labels[0])
           mask == ExpandMask(model_inputs.attention_mask, {})
           labels_causal_mask == LabelsCausalMask(bs, prefix_len, lab_len)
       IN  model_inputs' = [model_inputs EXCEPT !.causal_mask =
                               AddCausalMask(mask, labels_causal_mask, prefix_len)]
    /\ pc' = "dec_masked"
    /\ UNCHANGED <<in_vars, scorer, raised, model_calls, raw_logits, logits,
                   seq_token_log_probs, seq_log_prob, predictions, em_result>>

\* line 155
DecModel ==
    /\ pc = IF prefixlm THEN "dec_masked" ELSE "dec_inputs"
    /\ raw_logits' \in [DOMAIN model_inputs.attention_mask ->
                           [Range(Size(model_inputs.attention_mask[0])) ->
                               LogitVectors]]
    /\ logits' = SliceLogits(raw_logits', Size(batch.input_ids[0]))
    /\ model_calls' = model_calls + 1
    /\ pc' = "dec_logits"
    /\ UNCHANGED <<in_vars, scorer, raised, model_inputs, seq_token_log_probs,
                   seq_log_prob, predictions, em_result>>

\* lines 157-161
DecScore ==
    /\ pc = "dec_logits"
    /\ LET masked_log_probs == MaskedLogProbs(batch.labels_attention_mask, logits)
       IN  /\ seq_token_log_probs' = Gather(masked_log_probs, batch.labels)
           /\ seq_log_prob' = SumLast(seq_token_log_probs')
    /\ pc' = "dec_summed"
    /\ UNCHANGED <<in_vars, scorer, raised, model_calls, model_inputs, raw_logits,
                   logits, predictions, em_result>>

\* lines 163-164
DecView ==
    /\ pc = "dec_summed"
    /\ IF ViewOK(Size(seq_log_prob), Size(batch.targets))
       THEN /\ seq_log_prob' = View(seq_log_prob, Size(batch.targets))
            /\ pc' = "dec_viewed"
            /\ UNCHANGED raised
       ELSE /\ raised' = "RuntimeError"
            /\ pc' = "raised"
            /\ UNCHANGED seq_log_prob
    /\ UNCHANGED <<in_vars, scorer, model_calls, model_inputs, raw_logits, logits,
                   seq_token_log_probs, predictions, em_result>>

\* lines 166-167
DecArgmax ==
    /\ pc = "dec_viewed"
    /\ predictions' = ArgMax(seq_log_prob)
    /\ pc' = "done"
    /\ UNCHANGED <<in_vars, scorer, raised, model_calls, model_inputs, raw_logits,
                   logits, seq_token_log_probs, seq_log_prob, em_result>>

Next ==
    \/ FromConfig
    \/ EncModel \/ EncScore \/ EncView \/ EncArgmax
    \/ DecInputs \/ DecPrefixMask \/ DecModel \/ DecScore \/ DecView \/ DecArgmax

\* a direct call of _expand_mask(mask, dtype, tgt_len)
ExpandMaskCall ==
    /\ pc = "expand_call"
    /\ em_result' = ExpandMask(em_args.mask, em_args.tgt_len)
    /\ pc' = "expand_ret"
    /\ UNCHANGED <<in_vars, scorer, raised, model_calls, fwd_vars>>

NextExpand == ExpandMaskCall

-----------------------------------------------------------------------------
(* specifications *)

\* a family of inputs: config classes, rows, prompt and candidate length,
\* example counts, prompt and candidate mask values, candidate token ids, the
\* model's vocabulary size and logit values, prefixlm flags
Shape(cs, rows, pl, ll, ns, pm, lm, ids, vocab, values, flags) ==
    [configs |-> cs, rows |-> rows, prefix_len |-> pl, lab_len |-> ll,
     examples |-> ns, prompt_mask |-> pm, label_mask |-> lm, label_ids |-> ids,
     vocab |-> vocab, values |-> values, prefixlm |-> flags]

OneOfEach == {"BloomConfig", "T5Config", "ViTConfig"}

\* from_config on every kind of config class, followed by a small forward
CfgRows == 2
Init ==
    InitWith({Shape(ConfigClasses, r, 1, 1, 1 .. CfgRows, {0, 1}, {0, 1}, {0},
                    1, {Fin(0)}, BOOLEAN) : r \in 1 .. CfgRows})
Spec == Init /\ [][Next]_vars

\* scoring: candidates of up to ScoreLab tokens over a vocabulary of ScoreVocab
\* ids, logits 0 or -inf, padding anywhere in the candidate
ScoreRows == 2
ScoreLab == 2
ScoreVocab == 2
InitScore ==
    InitWith({Shape(OneOfEach, r, 1, l, 1 .. ScoreRows, {1}, {0, 1},
                    Range(ScoreVocab), ScoreVocab, {Fin(0), NegInf}, BOOLEAN) :
                r \in 1 .. ScoreRows, l \in 1 .. ScoreLab})
SpecScore == InitScore /\ [][Next]_vars

\* reshaping: row counts that are and are not multiples of the example count
ShapeRows == 4
ShapeExamples == 3
InitShape ==
    InitWith({Shape(OneOfEach, r, 1, 1, 1 .. ShapeExamples, {1}, {0, 1}, {0},
                    1, {Fin(0), Fin(1)}, BOOLEAN) : r \in 1 .. ShapeRows})
SpecShape == InitShape /\ [][Next]_vars

\* decoder inputs: prompts of up to MaxPrefix tokens, candidates of up to
\* MaxCand tokens, padding anywhere in both
InputRows == 1
MaxPrefix == 3
MaxCand == 2
InitInputs ==
    InitWith({Shape(OneOfEach, r, pl, l, {1}, {0, 1}, {0, 1}, {0},
                    1, {Fin(0)}, BOOLEAN) :
                r \in 1 .. InputRows, pl \in 1 .. MaxPrefix, l \in 1 .. MaxCand})
SpecInputs == InitInputs /\ [][Next]_vars

\* slicing: logits that differ from position to position, over two token ids
SlicePrefix == 3
SliceCand == 2
InitSlice ==
    InitWith({Shape(OneOfEach, 1, pl, l, {1}, {1}, {1}, {0, 1},
                    2, {Fin(0), Fin(1)}, BOOLEAN) :
                pl \in 1 .. SlicePrefix, l \in 1 .. SliceCand})
SpecSlice == InitSlice /\ [][Next]_vars

\* _expand_mask called directly, with and without tgt_len
ExpandRows == 2
ExpandSrc == 3
ExpandTgt == 3
InitExpand ==
    /\ pc = "expand_call"
    /\ \E r \in 0 .. ExpandRows, s \in 0 .. ExpandSrc :
        /\ em_args \in [mask : Tensors2(r, s, {0, 1}),
                        tgt_len : {{}} \cup {{n} : n \in 0 .. ExpandTgt}]
    /\ config = "none"
    /\ model = [vocab |-> 0, values |-> {}]
    /\ batch = NoTensor
    /\ prefixlm = FALSE
    /\ scorer = "none"
    /\ raised = "none"
    /\ model_calls = 0
    /\ model_inputs = NoInputs
    /\ raw_logits = NoTensor
    /\ logits = NoTensor
    /\ seq_token_log_probs = NoTensor
    /\ seq_log_prob = NoTensor
    /\ predictions = NoTensor
    /\ em_result = NoTensor
SpecExpand == InitExpand /\ [][NextExpand]_vars

-----------------------------------------------------------------------------
(* properties *)

Rows == Size(batch.labels)
LabLen == Size(batch.labels[0])
PrefixLen == Size(batch.input_ids[0])
NumExamples == Size(batch.targets)

Summed == pc \in {"enc_summed", "dec_summed"}
Viewed == pc \in {"enc_viewed", "dec_viewed"}

\* the log-probability of candidate token t of row r, counted as exactly 0
\* at a padding position
RefLogProb(r, t) ==
    IF batch.labels_attention_mask[r][t] = 0 THEN Fin(0)
    ELSE LogSoftmax(logits[r][t])[batch.labels[r][t]]

\* the score of row r: the sum of its candidate tokens' log-probabilities
RefScore(r) == FSum([t \in Range(LabLen) |-> RefLogProb(r, t)], LabLen - 1)

\* p is the lowest index of example e's group of c candidates that maximises
\* the score
LowestBest(e, c, p) ==
    /\ p \in Range(c)
    /\ \A k \in Range(c) :
        /\ ~FGreater(RefScore(e * c + k), RefScore(e * c + p))
        /\ k < p => FGreater(RefScore(e * c + p), RefScore(e * c + k))

\* C1: for both scorers the prediction of every example e is the lowest index
\* c of its group that maximises score(e*C + c), the sum over the candidate
\* positions of the log-probability of the candidate token, padding positions
\* counting 0; with C = 1 every prediction is 0.
C1_Claim ==
    pc = "done" =>
        \A e \in Range(NumExamples) :
            /\ LowestBest(e, Rows \div NumExamples, predictions[e])
            /\ Rows = NumExamples => predictions[e] = 0

\* the same statement for the batches in which no product of a padding
\* position is nan
C1_WithoutNaN ==
    (pc = "done" /\ \A r \in Range(Rows), t \in Range(LabLen) :
                        ~IsNaN(seq_token_log_probs[r][t])) =>
        \A e \in Range(NumExamples) :
            /\ LowestBest(e, Rows \div NumExamples, predictions[e])
            /\ Rows = NumExamples => predictions[e] = 0

\* the row scores the scoring lines compute from the logits lg
ScoreOf(lg) == SumLast(Gather(MaskedLogProbs(batch.labels_attention_mask, lg),
                              batch.labels))

\* C3: for both scorers every candidate position whose mask is 0 contributes
\* exactly 0 to its row's score whatever the logits there: a second run whose
\* logits differ only at padding positions has the same row scores and the
\* same predictions.
C3_Claim ==
    Summed =>
        /\ \A r \in Range(Rows), t \in Range(LabLen) :
            batch.labels_attention_mask[r][t] = 0 =>
                seq_token_log_probs[r][t] = Fin(0)
        /\ \A other \in [Range(Rows) -> [Range(LabLen) -> LogitVectors]] :
            (\A r \in Range(Rows), t \in Range(LabLen) :
                batch.labels_attention_mask[r][t] = 1 =>
                    other[r][t] = logits[r][t])
            => /\ ScoreOf(other) = seq_log_prob
               /\ ViewOK(Rows, NumExamples) =>
                    ArgMax(View(ScoreOf(other), NumExamples))
                        = ArgMax(View(seq_log_prob, NumExamples))

\* C4 as stated: a batch whose row count is not a multiple of the example
\* count fails before the underlying model is invoked and before
\* log-softmax, gather and sum run.
C4_Claim ==
    (scorer # "none" /\ Rows % NumExamples # 0) =>
        /\ model_calls = 0
        /\ seq_token_log_probs = NoTensor
        /\ seq_log_prob = NoTensor
        /\ predictions = NoTensor

C4_State ==
    /\ (scorer # "none" /\ Rows % NumExamples # 0) =>
        /\ ~Viewed /\ pc # "done"
        /\ predictions = NoTensor
    /\ raised = "RuntimeError" =>
        /\ Rows % NumExamples # 0
        /\ pc = "raised"
        /\ model_calls = 1
        /\ Size(seq_token_log_probs) = Rows
        /\ Size(seq_log_prob) = Rows

\* C4, amended: for both scorers a batch whose row count is not a multiple of
\* the example count fails with a shape error at the reshape, after the
\* underlying model was invoked once and log-softmax, gather and sum ran; it
\* never reaches the argmax and no prediction is returned.
C4_Amended ==
    /\ []C4_State
    /\ [][(Summed /\ Rows % NumExamples # 0) => raised' = "RuntimeError"]_vars

C4_Witness ==
    /\ raised = "RuntimeError"
    /\ scorer = "DecoderModel"
    /\ Rows = 3 /\ NumExamples = 2

\* C2: in DecoderModel.forward the logits handed to the scoring step are the
\* raw output positions prompt_len-1 .. total_len-2 in order: candidate_len
\* positions, position t being raw position prompt_len-1+t, scored against
\* candidate token t.
C2_Slice ==
    (scorer = "DecoderModel" /\ pc \in {"dec_logits", "dec_summed"}) =>
        \A r \in Range(Rows) :
            /\ DOMAIN logits[r] = Range(LabLen)
            /\ \A t \in Range(LabLen) :
                /\ logits[r][t] = raw_logits[r][PrefixLen - 1 + t]
                /\ pc = "dec_summed" =>
                    seq_token_log_probs[r][t] =
                        FMul(batch.labels_attention_mask[r][t],
                             LogSoftmax(raw_logits[r][PrefixLen - 1 + t])
                                 [batch.labels[r][t]])

C2_Witness ==
    /\ scorer = "DecoderModel" /\ pc = "dec_summed"
    /\ PrefixLen = 3 /\ LabLen = 2
    /\ raw_logits[0][2] # raw_logits[0][1]
    /\ raw_logits[0][2] # raw_logits[0][3]
    /\ raw_logits[0][3] # raw_logits[0][4]
    /\ logits[0] = [t \in Range(2) |-> raw_logits[0][2 + t]]


\* the bias built by the prefixlm branch is in model_inputs
HasBias == scorer = "DecoderModel" /\ prefixlm /\ pc \notin {"forward", "dec_inputs"}

Real(r, s) == model_inputs.attention_mask[r][s] = 1
Bias(r, q, s) == model_inputs.causal_mask[r][0][q][s]
TotalLen == PrefixLen + LabLen

\* C5 as stated: with prefixlm=True every prompt query row has bias 0 at every
\* non-padding column of the whole sequence, candidate columns included, and
\* the negative sentinel only at padding columns.
C5_Claim ==
    HasBias =>
        \A r \in Range(Rows), q \in Range(PrefixLen), s \in Range(TotalLen) :
            Bias(r, q, s) = IF Real(r, s) THEN Fin(0) ELSE NegInf

\* C5, amended: with prefixlm=True every prompt query row has bias 0 exactly
\* at the non-padding prompt columns, and the negative sentinel at every
\* padding column and at every candidate column (the rows concatenated above
\* the candidate causal block are all ones).
C5_Amended ==
    HasBias =>
        /\ DOMAIN model_inputs.causal_mask = Range(Rows)
        /\ \A r \in Range(Rows) :
            /\ DOMAIN model_inputs.causal_mask[r] = Range(1)
            /\ DOMAIN model_inputs.causal_mask[r][0] = Range(TotalLen)
            /\ \A q \in Range(PrefixLen) :
                /\ DOMAIN model_inputs.causal_mask[r][0][q] = Range(TotalLen)
                /\ \A s \in Range(TotalLen) :
                    Bias(r, q, s) = IF s < PrefixLen /\ Real(r, s) THEN Fin(0)
                                    ELSE NegInf

C5_Witness ==
    /\ HasBias
    /\ PrefixLen = 2 /\ LabLen = 2
    /\ ~Real(0, 0) /\ Real(0, 1) /\ Real(0, 2) /\ ~Real(0, 3)
    /\ Bias(0, 0, 2) = NegInf

\* C6: with prefixlm=True candidate query row i (row prompt_len+i) has bias 0
\* exactly at the non-padding prompt columns and the non-padding candidate
\* columns j <= i, and the negative sentinel everywhere else: a padding column
\* stays masked when causally allowed, a causally masked column stays masked
\* when it holds a real token.
C6_CandidateRows ==
    HasBias =>
        \A r \in Range(Rows), i \in Range(LabLen), s \in Range(TotalLen) :
            Bias(r, PrefixLen + i, s) =
                IF Real(r, s) /\ (s < PrefixLen \/ s - PrefixLen <= i)
                THEN Fin(0) ELSE NegInf

C6_Witness ==
    /\ HasBias
    /\ PrefixLen = 2 /\ LabLen = 2
    /\ ~Real(0, 0) /\ Real(0, 1) /\ ~Real(0, 2) /\ Real(0, 3)
    /\ Bias(0, 3, 2) = NegInf
    /\ Bias(0, 2, 3) = NegInf
    /\ Bias(0, 3, 3) = Fin(0)

\* C10: with prefixlm=True, when a row's prompt holds at least one real token,
\* no query row of that row's bias is fully masked: every prompt query row and
\* every candidate query row has a column with bias 0.
C10_NoRowFullyMasked ==
    HasBias =>
        \A r \in Range(Rows) :
            (\E s \in Range(PrefixLen) : Real(r, s)) =>
                \A q \in Range(TotalLen) : \E s \in Range(TotalLen) :
                    Bias(r, q, s) = Fin(0)

C10_Witness ==
    /\ HasBias
    /\ PrefixLen = 2 /\ LabLen = 2
    /\ Real(0, 0) /\ ~Real(0, 1) /\ ~Real(0, 2) /\ ~Real(0, 3)
    /\ \A q \in Range(TotalLen) : Bias(0, q, 0) = Fin(0)

\* number of real tokens of row r at or before slot s
RealUpTo(r, s) == Cardinality({i \in 0 .. s : Real(r, i)})

PosId(r, s) == model_inputs.position_ids[0][r][s]

\* C7: the position id at each slot is max(number of real tokens at or before
\* the slot - 1, 0): never negative, non-decreasing along the row, k-1 at the
\* k-th real token whatever padding precedes it, and not advanced by a
\* padding slot.
C7_PositionIds ==
    (scorer = "DecoderModel" /\ pc # "forward") =>
        /\ DOMAIN model_inputs.position_ids = Range(1)
        /\ \A r \in Range(Rows), s \in Range(TotalLen) :
            /\ PosId(r, s) = Max(RealUpTo(r, s) - 1, 0)
            /\ PosId(r, s) >= 0
            /\ s > 0 => PosId(r, s - 1) <= PosId(r, s)
            /\ Real(r, s) => PosId(r, s) = RealUpTo(r, s) - 1
            /\ ~Real(r, s) => PosId(r, s) = IF s = 0 THEN 0 ELSE PosId(r, s - 1)

C7_Witness ==
    /\ scorer = "DecoderModel" /\ pc = "dec_inputs"
    /\ PrefixLen = 2 /\ LabLen = 2
    /\ ~Real(0, 0) /\ Real(0, 1) /\ ~Real(0, 2) /\ Real(0, 3)
    /\ model_inputs.position_ids[0][0] = [s \in Range(4) |-> IF s = 3 THEN 1 ELSE 0]

C8_Result ==
    pc = "expand_ret" =>
        LET mask == em_args.mask
            rows == Size(mask)
            source_len == IF rows = 0 THEN 0 ELSE Size(mask[0])
            target_len == IF em_args.tgt_len = {} THEN source_len
                          ELSE CHOOSE n \in em_args.tgt_len : TRUE
        IN  /\ DOMAIN em_result = Range(rows)
            /\ \A r \in Range(rows) :
                /\ DOMAIN em_result[r] = Range(1)
                /\ DOMAIN em_result[r][0] = Range(target_len)
                /\ \A q \in Range(target_len) :
                    /\ DOMAIN em_result[r][0][q] = Range(source_len)
                    /\ \A s \in Range(source_len) :
                        em_result[r][0][q][s] =
                            IF mask[r][s] = 1 THEN Fin(0) ELSE NegInf

\* C8: for every binary mask [rows, source_len] and every target_len (source_len
\* when not given) _expand_mask returns a [rows, 1, target_len, source_len]
\* bias that is 0 where mask[r, s] = 1 and the negative sentinel where
\* mask[r, s] = 0, the same for every target row; the input mask is unchanged.
C8_ExpandMask ==
    /\ []C8_Result
    /\ [][em_args' = em_args]_vars

C8_Witness ==
    /\ pc = "expand_ret"
    /\ em_args.tgt_len = {2}
    /\ em_args.mask = [r \in Range(2) |-> [s \in Range(3) |->
                          IF r = 0 /\ s = 1 THEN 0 ELSE 1]]
    /\ em_result[0][0][1][1] = NegInf /\ em_result[1][0][1][1] = Fin(0)

C9_State ==
    pc # "from_config" =>
        /\ config \in DOMAIN MODEL_FOR_CAUSAL_LM_MAPPING =>
            scorer = "DecoderModel" /\ raised # "NotImplementedError"
        /\ (config \notin DOMAIN MODEL_FOR_CAUSAL_LM_MAPPING
                /\ config \in DOMAIN MODEL_FOR_SEQ_TO_SEQ_CAUSAL_LM_MAPPING) =>
            scorer = "EncoderDecoderModel" /\ raised # "NotImplementedError"
        /\ (config \notin DOMAIN MODEL_FOR_CAUSAL_LM_MAPPING
                /\ config \notin DOMAIN MODEL_FOR_SEQ_TO_SEQ_CAUSAL_LM_MAPPING) =>
            scorer = "none" /\ raised = "NotImplementedError" /\ pc = "raised"

\* C9: from_config selects the scorer once from the config class: a
\* DecoderModel when the class is in the causal-LM mapping (checked first, so
\* also for a class in both mappings), otherwise an EncoderDecoderModel when
\* it is in the seq2seq mapping, otherwise NotImplementedError and no scorer.
C9_FromConfig ==
    /\ []C9_State
    /\ [][pc # "from_config" => scorer' = scorer]_vars

C9_Witness ==
    /\ config = "BartConfig"
    /\ config \in DOMAIN MODEL_FOR_SEQ_TO_SEQ_CAUSAL_LM_MAPPING
    /\ scorer = "DecoderModel"
    /\ pc = "done"

====
